---- MODULE Spec2Model ----
(***************************************************************************)
(* TummyTrackerML (src/ml_engine.py): the engine object (models table,     *)
(* label encoders, scaler, trained flag), the artifact directory it saves  *)
(* to and loads from, and its operations prepare_features, train_models,   *)
(* predict_symptoms, save_models and load_models.                          *)
(*                                                                         *)
(* Library objects are modelled by what the engine can observe of them:    *)
(*   - a fitted LabelEncoder is its classes_ (the sorted distinct values); *)
(*   - a fitted StandardScaler or classifier is a function of the matrix   *)
(*     it was fitted on, so it is named by that matrix's history ("on");   *)
(*   - predict_proba is a fixed function of the fitted classifier and the  *)
(*     scaled row, with values k/Den for k in 0..Den.                      *)
(* Text is a sequence of one-character strings.                            *)
(***************************************************************************)
EXTENDS Integers, Sequences, FiniteSets, TLC

VARIABLES
    models,          \* self.models: the dict as a sequence of entries, in insertion order
    label_encoders,  \* self.label_encoders: column name -> fitted encoder
    scaler,          \* self.scaler
    is_trained,      \* self.is_trained
    disk,            \* the files under model_path: artifact name -> content
    call,            \* the last completed call: operation, argument, engine before, outcome
    faults,          \* the number of storage faults met so far
    trainer,         \* a training run in progress (threaded specification)
    predictor        \* a prediction in progress (threaded specification)

vars == <<models, label_encoders, scaler, is_trained, disk, call, faults, trainer, predictor>>

engine == <<models, label_encoders, scaler, is_trained>>

(***************************************************************************)
(* Bounds and program constants                                            *)
(***************************************************************************)
MinExamples == 10

\* predict_proba values are k/Den
Den == 4

\* at most MaxFaults joblib.dump calls fail in a run of the model
MaxFaults == 1

Max(a, b) == IF a >= b THEN a ELSE b

Range(s) == {s[i] : i \in DOMAIN s}

(***************************************************************************)
(* Domain records (src/models.py)                                          *)
(***************************************************************************)
NoText == <<>>

Food(category, ingredients, allergens) ==
    [category |-> category, ingredients |-> ingredients, allergens |-> allergens]

\* meal_time is a datetime: whole days since 1970-01-01 and the hour of the day
Meal(id, food, quantity, days, hour, notes) ==
    [id |-> id, food |-> food, quantity |-> quantity,
     meal_time |-> [days |-> days, hour |-> hour], notes |-> notes]

Symptom(meal_id, severity) == [meal_id |-> meal_id, severity |-> severity]

(***************************************************************************)
(* Text helpers: str.lower() and the `in` substring test                   *)
(***************************************************************************)
Upper == <<"A","B","C","D","E","F","G","H","I","J","K","L","M",
           "N","O","P","Q","R","S","T","U","V","W","X","Y","Z">>
Lower == <<"a","b","c","d","e","f","g","h","i","j","k","l","m",
           "n","o","p","q","r","s","t","u","v","w","x","y","z">>

LowerChar(c) ==
    IF \E i \in DOMAIN Upper : Upper[i] = c
    THEN Lower[CHOOSE i \in DOMAIN Upper : Upper[i] = c]
    ELSE c

StrLower(t) == [i \in DOMAIN t |-> LowerChar(t[i])]

\* text.startswith(word)
StartsWith(text, word) ==
    Len(word) <= Len(text) /\ \A j \in 1..Len(word) : text[j] = word[j]

\* word in text
Contains(text, word) ==
    \E s \in 0..(Len(text) - Len(word)) :
        \A j \in 1..Len(word) : text[s + j] = word[j]

DairyWords == { <<"m","i","l","k">>, <<"c","h","e","e","s","e">>,
                <<"y","o","g","u","r","t">>, <<"b","u","t","t","e","r">>,
                <<"c","r","e","a","m">> }
GlutenWords == { <<"w","h","e","a","t">>, <<"f","l","o","u","r">>,
                 <<"b","r","e","a","d">>, <<"p","a","s","t","a">> }
SpicyWords == { <<"p","e","p","p","e","r">>, <<"c","h","i","l","i">>,
                <<"h","o","t">>, <<"s","p","i","c","y">> }
AllergenWords == { <<"d","a","i","r","y">>, <<"n","u","t","s">>,
                   <<"g","l","u","t","e","n">>, <<"s","o","y">>,
                   <<"f","i","s","h">> }

AnyWordIn(words, text) == \E w \in words : Contains(text, w)

(***************************************************************************)
(* The histories offered to the engine                                     *)
(***************************************************************************)
None == 0 - 1   \* a missing quantity (Meal.quantity is nullable)

Milk == Food("dairy", <<"M","i","l","k",","," ","c","r","e","a","m">>, <<"D","a","i","r","y">>)
Bread == Food("gluten", <<"W","h","e","a","t"," ","f","l","o","u","r">>,
              <<"g","l","u","t","e","n",","," ","s","o","y">>)
Curry == Food("spicy", <<"H","o","t"," ","c","h","i","l","i">>, NoText)
Salad == Food("raw", NoText, NoText)
Rice == Food("other", <<"r","i","c","e">>, NoText)

\* meal i of a history: its food, every third meal without a quantity, every
\* second one with notes, one meal a day at a varying hour
MealsOf(foods) ==
    [i \in 1..Len(foods) |->
        Meal(i, foods[i],
             IF i % 3 = 0 THEN None ELSE i % 3,
             19000 + i, (7 * i) % 24,
             IF i % 2 = 0 THEN <<"o","k">> ELSE NoText)]

SymptomsOn(ids) == [k \in 1..Len(ids) |-> Symptom(ids[k], 1 + (k % 5))]

History(foods, ids) == [meals |-> MealsOf(foods), symptoms |-> SymptomsOn(ids)]

Histories == <<
    \* 1: no meals, one symptom left over from a deleted meal
    History(<< >>, <<7>>),
    \* 2: nine meals, one short of the minimum
    History(<<Salad, Salad, Rice, Salad, Rice, Salad, Salad, Rice, Salad>>, <<3, 5>>),
    \* 3: ten meals, five with symptoms
    History(<<Milk, Bread, Curry, Rice, Milk, Bread, Curry, Rice, Milk, Curry>>,
            <<1, 3, 5, 5, 7, 10>>),
    \* 4: eleven meals, five with symptoms, one symptom of a meal not in the history
    History(<<Curry, Salad, Curry, Salad, Curry, Salad, Curry, Salad, Curry, Salad, Salad>>,
            <<1, 3, 5, 7, 9, 40>>),
    \* 5: ten meals, none with a symptom
    History(<<Milk, Salad, Milk, Salad, Milk, Salad, Milk, Salad, Milk, Salad>>, << >>)
>>

HistoryIds == DOMAIN Histories

(***************************************************************************)
(* A Python dict (self.models, self.label_encoders): its entries, each     *)
(* with its key in .name, in insertion order                               *)
(***************************************************************************)
DictHas(dict, name) == \E k \in DOMAIN dict : dict[k].name = name
DictGet(dict, name) == dict[CHOOSE k \in DOMAIN dict : dict[k].name = name]
\* dict[entry.name] = entry
DictSet(dict, entry) ==
    IF DictHas(dict, entry.name)
    THEN [k \in DOMAIN dict |-> IF dict[k].name = entry.name THEN entry ELSE dict[k]]
    ELSE Append(dict, entry)

(***************************************************************************)
(* LabelEncoder: classes_ is the sorted sequence of the distinct values    *)
(***************************************************************************)
\* the category strings in str order
SortedCategories == <<"dairy", "gluten", "other", "raw", "spicy">>

RECURSIVE SelectSeq2(_, _)
SelectSeq2(s, keep) ==
    IF s = << >> THEN << >>
    ELSE IF Head(s) \in keep THEN <<Head(s)>> \o SelectSeq2(Tail(s), keep)
         ELSE SelectSeq2(Tail(s), keep)

\* LabelEncoder().fit(values)
LabelEncoderFit(values) == [classes |-> SelectSeq2(SortedCategories, Range(values))]

Seen(le, v) == \E i \in DOMAIN le.classes : le.classes[i] = v

\* le.transform([v])[0] for a seen value: its index in classes_
LabelEncoderTransform(le, v) == (CHOOSE i \in DOMAIN le.classes : le.classes[i] = v) - 1

(***************************************************************************)
(* prepare_features                                                        *)
(***************************************************************************)
FeatureColumns == <<"food_category", "meal_hour", "meal_day_of_week", "has_quantity",
                    "quantity", "has_notes", "has_ingredients", "has_dairy", "has_gluten",
                    "has_spicy", "has_allergens", "allergen_count", "days_since_epoch">>

Truthy(q) == q # None /\ q # 0

\* datetime.weekday(): Monday is 0; 1970-01-01 was a Thursday
Weekday(meal_time) == (meal_time.days + 3) % 7

\* the ids of the meals that a symptom of severity 3 or more references
MealSymptomsSevere(symptoms_data) ==
    {symptoms_data[k].meal_id : k \in {j \in DOMAIN symptoms_data : symptoms_data[j].severity >= 3}}

\* the set of meal ids that some symptom references (the keys of meal_symptoms)
MealSymptoms(symptoms_data) == {symptoms_data[k].meal_id : k \in DOMAIN symptoms_data}

MealFeatures(meal, meal_symptoms) ==
    LET ing == meal.food.ingredients
        ingredients_lower == StrLower(ing)
        alg == meal.food.allergens
        allergens_lower == StrLower(alg)
    IN [food_category |-> meal.food.category,
        meal_hour |-> meal.meal_time.hour,
        meal_day_of_week |-> Weekday(meal.meal_time),
        has_quantity |-> IF Truthy(meal.quantity) THEN 1 ELSE 0,
        quantity |-> IF Truthy(meal.quantity) THEN meal.quantity ELSE 0,
        has_notes |-> IF meal.notes # NoText THEN 1 ELSE 0,
        has_ingredients |-> IF ing # NoText THEN 1 ELSE 0,
        has_dairy |-> IF ing # NoText /\ AnyWordIn(DairyWords, ingredients_lower) THEN 1 ELSE 0,
        has_gluten |-> IF ing # NoText /\ AnyWordIn(GlutenWords, ingredients_lower) THEN 1 ELSE 0,
        has_spicy |-> IF ing # NoText /\ AnyWordIn(SpicyWords, ingredients_lower) THEN 1 ELSE 0,
        has_allergens |-> IF alg # NoText THEN 1 ELSE 0,
        allergen_count |-> IF alg # NoText
                           THEN Cardinality({a \in AllergenWords : Contains(allergens_lower, a)})
                           ELSE 0,
        days_since_epoch |-> meal.meal_time.days,
        caused_symptoms |-> IF meal.id \in meal_symptoms THEN 1 ELSE 0]

\* the keys of the meal_features dict of a meal, in insertion order
MealFeatureKeys(meal) ==
    <<"food_category", "meal_hour", "meal_day_of_week", "has_quantity", "quantity",
      "has_notes">>
    \o (IF meal.food.ingredients # NoText
        THEN <<"has_ingredients", "has_dairy", "has_gluten", "has_spicy">>
        ELSE <<"has_ingredients", "has_dairy", "has_gluten", "has_spicy">>)
    \o (IF meal.food.allergens # NoText
        THEN <<"has_allergens", "allergen_count">>
        ELSE <<"has_allergens", "allergen_count">>)
    \o <<"days_since_epoch", "caused_symptoms">>

\* the distinct values of a list in the order of their first occurrence
FirstSeen(values) ==
    LET first == {i \in DOMAIN values : \A j \in 1..(i - 1) : values[j] # values[i]}
    IN [k \in 1..Cardinality(first) |->
          values[CHOOSE i \in first : Cardinality({j \in first : j < i}) = k - 1]]

RECURSIVE Concat(_, _)
Concat(lists, n) == IF n = 0 THEN << >> ELSE Concat(lists, n - 1) \o lists[n]

\* pd.DataFrame(features).columns: the keys of the row dicts, each where it
\* is first met
DataFrameColumns(meals_data) ==
    FirstSeen(Concat([i \in DOMAIN meals_data |-> MealFeatureKeys(meals_data[i])],
                     Len(meals_data)))

\* the rows built by the loop over meals_data, the encoder fitted on their
\* food_category column, and the (X, y) cut from the frame with that column
\* encoded.  X is named by the history it was built from (id).
FeatureFrameOf(id, meals_data, symptoms_data) ==
    LET meal_symptoms == MealSymptoms(symptoms_data)
        features == [i \in DOMAIN meals_data |-> MealFeatures(meals_data[i], meal_symptoms)]
        le == LabelEncoderFit([i \in DOMAIN features |-> features[i].food_category])
        df == [i \in DOMAIN features |->
                 [features[i] EXCEPT !.food_category = LabelEncoderTransform(le, @)]]
        columns == SelectSeq(DataFrameColumns(meals_data), LAMBDA c : c # "caused_symptoms")
    IN [le |-> le,
        X |-> [id |-> id, columns |-> columns,
               rows |-> [i \in DOMAIN df |-> [c \in Range(columns) |-> df[i][c]]]],
        y |-> [i \in DOMAIN df |-> df[i].caused_symptoms]]

FeatureFrame(h) == FeatureFrameOf(h, Histories[h].meals, Histories[h].symptoms)

FeatureFrames == [h \in HistoryIds |-> FeatureFrame(h)]

\* prepare_features storing the encoder fitted on no rows before it returns
\* (None, None) for an empty list
PrepareResultFittingFirst(encoders, meals_data, frame) ==
    [label_encoders |-> DictSet(encoders, [name |-> "food_category", le |-> frame.le]),
     none |-> meals_data = << >>,
     X |-> frame.X,
     y |-> frame.y]

\* prepare_features(meals_data, symptoms_data), frame being the frame built
\* from the two lists: the encoders it leaves in self.label_encoders, and the
\* (X, y) it returns; none stands for the (None, None) return.
PrepareResult(encoders, meals_data, frame) ==
    IF meals_data = << >>
    THEN [label_encoders |-> encoders, none |-> TRUE]
    ELSE [label_encoders |->
              DictSet(encoders, [name |-> "food_category", le |-> frame.le]),
          none |-> FALSE,
          X |-> frame.X,
          y |-> frame.y]

\* prepare_features on the meals and symptoms of history h
prepare_features(encoders, h) ==
    PrepareResult(encoders, Histories[h].meals, FeatureFrames[h])

(***************************************************************************)
(* The engine object and its library parts                                 *)
(***************************************************************************)
Self == [models |-> models, label_encoders |-> label_encoders,
         scaler |-> scaler, is_trained |-> is_trained]

\* __init__
NewEngine == [models |-> << >>, label_encoders |-> << >>,
              scaler |-> [fitted |-> FALSE], is_trained |-> FALSE]

Return(v) == [kind |-> "return", value |-> v]
Raise(exc) == [kind |-> "raise", exc |-> exc]

\* StandardScaler.fit(X): the statistics of X's rows, under X's column names
ScalerFit(X) == [fitted |-> TRUE, on |-> X.id, feature_names |-> X.columns]

\* classifier.fit(X_train_scaled, y_train)
ClassifierFit(kind, X) == [kind |-> kind, on |-> X.id]

\* accuracy_score(y_test, model.predict(X_test_scaled))
AccuracyScore(model) == [score_of |-> model.kind, on |-> model.on]

\* train_test_split(test_size=0.2): ceil(0.2 * n) rows are held out
TestSize(n) == (n + 4) \div 5

\* the held-out row sets the seeded shuffle may produce for n rows
TestSets(n) == {t \in SUBSET (1..n) : Cardinality(t) = TestSize(n)}

\* LogisticRegression.fit raises ValueError when y_train holds one class only
SingleClass(y, test) == Cardinality({y[i] : i \in DOMAIN y \ test}) < 2

(***************************************************************************)
(* Persistence: save_models and load_models                                *)
(***************************************************************************)
ArtifactNames == {"random_forest", "logistic_regression", "scaler", "encoders"}

Absent == [state |-> "absent"]
Corrupt == [state |-> "corrupt"]
Stored(obj) == [state |-> "ok", obj |-> obj]

\* the storage faults of one save: the failAt-th joblib.dump raises (0: none
\* does), either after it has opened its file for writing, which leaves the
\* file truncated (torn), or before, which leaves the file as it was
IOs == {[failAt |-> 0]} \cup [failAt : 1..Cardinality(ArtifactNames), torn : BOOLEAN]

NoFault == [failAt |-> 0]

\* the joblib.dump calls of save_models, in order
SaveWrites(self) ==
    [k \in DOMAIN self.models |-> [name |-> self.models[k].name, obj |-> self.models[k].model]]
    \o << [name |-> "scaler", obj |-> self.scaler],
          [name |-> "encoders", obj |-> self.label_encoders] >>

\* the directory after the dumps of writes, in order, under the faults io
DumpAll(writes, d, io) ==
    LET fails == io.failAt \in DOMAIN writes
        done == IF fails THEN io.failAt - 1 ELSE Len(writes)
    IN [disk |-> [a \in ArtifactNames |->
                    IF \E k \in 1..done : writes[k].name = a
                    THEN Stored(writes[CHOOSE k \in 1..done : writes[k].name = a].obj)
                    ELSE IF fails /\ writes[io.failAt].name = a /\ io.torn
                         THEN Corrupt
                         ELSE d[a]],
        raised |-> fails]

\* save_models without the dump of the scaler
save_models_without_scaler(self, d, io) ==
    IF ~self.is_trained
    THEN [disk |-> d, raised |-> FALSE]
    ELSE DumpAll(SelectSeq(SaveWrites(self), LAMBDA w : w.name # "scaler"), d, io)

save_models(self, d, io) ==
    IF ~self.is_trained
    THEN [disk |-> d, raised |-> FALSE]
    ELSE DumpAll(SaveWrites(self), d, io)

\* name.replace('_', ' ').title()
TypeTitle(name) == IF name = "random_forest" THEN "Random Forest" ELSE "Logistic Regression"

\* one pass of the for loop of load_models over a classifier name
LoadClassifier(st, d, name) ==
    IF st.raised \/ d[name] = Absent THEN st
    ELSE IF d[name] = Corrupt THEN [st EXCEPT !.raised = TRUE]
    ELSE [st EXCEPT !.self.models =
             DictSet(@, [name |-> name, model |-> d[name].obj, type |-> TypeTitle(name)])]

load_models(self, d) ==
    LET s0 == [self |-> self, raised |-> FALSE]
        s1 == LoadClassifier(s0, d, "random_forest")
        s2 == LoadClassifier(s1, d, "logistic_regression")
    IN IF s2.raised THEN [self |-> s2.self, ret |-> FALSE]
       ELSE IF d["scaler"] = Absent \/ d["encoders"] = Absent
            THEN [self |-> s2.self, ret |-> FALSE]
       ELSE IF d["scaler"] = Corrupt THEN [self |-> s2.self, ret |-> FALSE]
       ELSE IF d["encoders"] = Corrupt
            THEN [self |-> [s2.self EXCEPT !.scaler = d["scaler"].obj], ret |-> FALSE]
       ELSE [self |-> [s2.self EXCEPT !.scaler = d["scaler"].obj,
                                      !.label_encoders = d["encoders"].obj,
                                      !.is_trained = TRUE],
             ret |-> TRUE]

(***************************************************************************)
(* train_models                                                            *)
(***************************************************************************)
NumRows(p) == IF p.none THEN 0 ELSE Len(p.X.rows)

ModelEntry(name, kind, type, X) ==
    LET m == ClassifierFit(kind, X)
    IN [name |-> name, model |-> m, accuracy |-> AccuracyScore(m), type |-> type]

\* train_models calling save_models before it sets is_trained
train_models_saving_first(self, d, p, test, io) ==
    IF p.none \/ Len(p.X.rows) < MinExamples
    THEN [self |-> self, disk |-> d, outcome |-> Return(FALSE)]
    ELSE LET fitted == [self EXCEPT !.scaler = ScalerFit(p.X)]
             rf == ModelEntry("random_forest", "RandomForestClassifier", "Random Forest", p.X)
             lr == ModelEntry("logistic_regression", "LogisticRegression",
                              "Logistic Regression", p.X)
             stored == [fitted EXCEPT !.models = DictSet(DictSet(@, rf), lr)]
             saved == save_models(stored, d, io)
         IN IF SingleClass(p.y, test)
            THEN [self |-> fitted, disk |-> d, outcome |-> Raise("ValueError")]
            ELSE [self |-> [stored EXCEPT !.is_trained = TRUE], disk |-> saved.disk,
                  outcome |-> IF saved.raised THEN Raise("OSError") ELSE Return(TRUE)]

\* train_models(X, y) with p = (X, y) as prepare_features returned it, test
\* the held-out rows of the split and io the storage faults met while saving
train_models(self, d, p, test, io) ==
    IF p.none \/ Len(p.X.rows) < MinExamples
    THEN [self |-> self, disk |-> d, outcome |-> Return(FALSE)]
    ELSE LET fitted == [self EXCEPT !.scaler = ScalerFit(p.X)]
             rf == ModelEntry("random_forest", "RandomForestClassifier", "Random Forest", p.X)
             lr == ModelEntry("logistic_regression", "LogisticRegression",
                              "Logistic Regression", p.X)
             stored == [fitted EXCEPT !.models = DictSet(DictSet(@, rf), lr),
                                      !.is_trained = TRUE]
             saved == save_models(stored, d, io)
         IN IF SingleClass(p.y, test)
            THEN [self |-> fitted, disk |-> d, outcome |-> Raise("ValueError")]
            ELSE [self |-> stored, disk |-> saved.disk,
                  outcome |-> IF saved.raised THEN Raise("OSError") ELSE Return(TRUE)]

(***************************************************************************)
(* predict_symptoms                                                        *)
(***************************************************************************)
\* the meal_features dicts offered to predict_symptoms: the thirteen feature
\* fields in the order of FeatureColumns, any category, with or without a
\* quantity
MealFeatureDict(category, quantity) ==
    [columns |-> FeatureColumns,
     values |-> [c \in Range(FeatureColumns) |->
                   IF c = "food_category" THEN category
                   ELSE IF c = "quantity" THEN quantity
                   ELSE IF c = "has_quantity" THEN (IF quantity = 0 THEN 0 ELSE 1)
                   ELSE IF c = "days_since_epoch" THEN 19100
                   ELSE IF c = "meal_hour" THEN 12
                   ELSE 0]]

\* the dicts offered to predict_symptoms: a meal of each category, entered
\* without a quantity
PredictInputs == {MealFeatureDict(c, 0) : c \in Range(SortedCategories)}

\* a dict over the given keys, with the values of MealFeatureDict("spicy", 0)
\* for the feature fields and 0 for any other key
DictOver(columns) ==
    [columns |-> columns,
     values |-> [c \in Range(columns) |->
                   IF c \in Range(FeatureColumns)
                   THEN MealFeatureDict("spicy", 0).values[c] ELSE 0]]

\* dicts a caller may also pass: the first two fields in the other order, the
\* last field missing, the target field added
SchemaInputs ==
    { DictOver(<<"meal_hour", "food_category">> \o SubSeq(FeatureColumns, 3, Len(FeatureColumns))),
      DictOver(SubSeq(FeatureColumns, 1, Len(FeatureColumns) - 1)),
      DictOver(Append(FeatureColumns, "caused_symptoms")) }

\* the installed scikit-learn: from 1.2 on, transform raises ValueError for a
\* DataFrame whose column names are not those seen in fit, in that order;
\* before, the names are not compared (1.0 and 1.1 only warn)
Builds == {"names_checked", "names_ignored"}

\* scaler.transform(df) raises ValueError: another number of columns, or
\* other names where they are checked
ScalerRejects(sc, columns, sklearn) ==
    \/ Len(columns) # Len(sc.feature_names)
    \/ sklearn = "names_checked" /\ columns # sc.feature_names

\* the row as the scaler and the classifiers read it, by position: the k-th
\* value of df stands for the k-th feature seen in fit
Positional(sc, columns, values) ==
    [c \in Range(sc.feature_names) |->
        values[columns[CHOOSE k \in DOMAIN sc.feature_names : sc.feature_names[k] = c]]]

\* the columns that self.label_encoders encodes in df
EncodedColumns(self, mf) ==
    {c \in Range(mf.columns) : DictHas(self.label_encoders, c)}

\* some encoded column holds a value its encoder was not fitted on
Unseen(self, mf) ==
    \E c \in EncodedColumns(self, mf) :
        ~Seen(DictGet(self.label_encoders, c).le, mf.values[c])

\* df after the encoding loop
Encoded(self, mf) ==
    [c \in Range(mf.columns) |->
        IF c \in EncodedColumns(self, mf)
        THEN LabelEncoderTransform(DictGet(self.label_encoders, c).le, mf.values[c])
        ELSE mf.values[c]]

\* scaler.transform(df): the row under the scaler's statistics
ScalerTransform(sc, row) == [by |-> sc.on, row |-> row]

\* model.predict_proba(X_scaled)[0][1] in units of 1/Den: a fixed function of
\* the fitted model and the scaled row, one for each kind of estimator
ProbaOne(model, xs) ==
    LET forest == model.kind = "RandomForestClassifier"
    IN ((IF forest THEN 3 ELSE 1) * (model.on + xs.by)
          + xs.row["food_category"]
          + (IF forest THEN 4 ELSE 3) * xs.row["quantity"]
          + xs.row["has_quantity"]
          + (IF forest THEN 0 ELSE 1)) % (Den + 1)

Ratio(num, den) == [num |-> num, den |-> den]

\* the recommendation giving the substitution texts only when confident
_generate_recommendation_when_sure(meal_features, prediction, confidence) ==
    IF prediction = 1
    THEN IF 4 * confidence.num < 3 * confidence.den
         THEN "Monitor your symptoms and consider avoiding this food category temporarily."
         ELSE IF meal_features.values["food_category"] = "dairy"
         THEN "Consider dairy alternatives like almond milk or coconut yogurt."
         ELSE IF meal_features.values["food_category"] = "gluten"
         THEN "Try gluten-free alternatives like quinoa or rice."
         ELSE IF meal_features.values["food_category"] = "spicy"
         THEN "Consider milder versions or reduce spice levels."
         ELSE "Monitor your symptoms and consider avoiding this food category temporarily."
    ELSE "This food appears safe for you based on current data."

_generate_recommendation(meal_features, prediction, confidence) ==
    IF prediction = 1
    THEN IF meal_features.values["food_category"] = "dairy"
         THEN "Consider dairy alternatives like almond milk or coconut yogurt."
         ELSE IF meal_features.values["food_category"] = "gluten"
         THEN "Try gluten-free alternatives like quinoa or rice."
         ELSE IF meal_features.values["food_category"] = "spicy"
         THEN "Consider milder versions or reduce spice levels."
         ELSE "Monitor your symptoms and consider avoiding this food category temporarily."
    ELSE "This food appears safe for you based on current data."

NotTrainedResult ==
    [prediction |-> "Model not trained", confidence |-> Ratio(0, 1),
     recommendation |-> "Need more data to make predictions"]

\* the returned dict with the ensemble label likely from one half on
ResultDictFromHalf(meal_features, rf, lr, ensemble_prob, unit) ==
    LET prediction == IF 2 * ensemble_prob[2] >= unit THEN 1 ELSE 0
        confidence == Ratio(Max(ensemble_prob[1], ensemble_prob[2]), unit)
    IN [prediction |-> IF prediction = 1 THEN "Likely to cause symptoms"
                       ELSE "Unlikely to cause symptoms",
        confidence |-> confidence,
        recommendation |-> _generate_recommendation(meal_features, prediction, confidence),
        model_details |->
            [random_forest |->
                [prediction |-> IF 2 * rf > Den THEN "Likely" ELSE "Unlikely",
                 confidence |-> Ratio(Max(Den - rf, rf), Den)],
             logistic_regression |->
                [prediction |-> IF 2 * lr > Den THEN "Likely" ELSE "Unlikely",
                 confidence |-> Ratio(Max(Den - lr, lr), Den)]]]

\* the returned dict, for class-1 probabilities rf/Den and lr/Den and the
\* ensemble distribution ensemble_prob in units of 1/unit
ResultDict(meal_features, rf, lr, ensemble_prob, unit) ==
    LET prediction == IF 2 * ensemble_prob[2] > unit THEN 1 ELSE 0
        confidence == Ratio(Max(ensemble_prob[1], ensemble_prob[2]), unit)
    IN [prediction |-> IF prediction = 1 THEN "Likely to cause symptoms"
                       ELSE "Unlikely to cause symptoms",
        confidence |-> confidence,
        recommendation |-> _generate_recommendation(meal_features, prediction, confidence),
        model_details |->
            [random_forest |->
                [prediction |-> IF 2 * rf > Den THEN "Likely" ELSE "Unlikely",
                 confidence |-> Ratio(Max(Den - rf, rf), Den)],
             logistic_regression |->
                [prediction |-> IF 2 * lr > Den THEN "Likely" ELSE "Unlikely",
                 confidence |-> Ratio(Max(Den - lr, lr), Den)]]]

\* the ensemble with the two class probabilities in the other order
PredictionResultSwapped(meal_features, rf, lr) ==
    ResultDict(meal_features, rf, lr, <<rf + lr, 2 * Den - (rf + lr)>>, 2 * Den)

\* the ensemble as the sum of the two distributions, not their mean
PredictionResultOfSum(meal_features, rf, lr) ==
    ResultDict(meal_features, rf, lr, <<2 * Den - (rf + lr), rf + lr>>, Den)

\* ensemble_prob = (rf_pred + lr_pred) / 2 and the dict built from it
PredictionResult(meal_features, rf, lr) ==
    ResultDict(meal_features, rf, lr, <<2 * Den - (rf + lr), rf + lr>>, 2 * Den)

\* predict_symptoms past the is_trained check
PredictTrained(self, meal_features, sklearn) ==
    IF Unseen(self, meal_features)
    THEN [self |-> self, outcome |-> Raise("ValueError"), ran |-> {"encoder"}]
    ELSE IF ~self.scaler.fitted
    THEN [self |-> self, outcome |-> Raise("NotFittedError"),
          ran |-> {"encoder", "scaler"}]
    ELSE IF ~DictHas(self.label_encoders, "food_category")
    THEN [self |-> self, outcome |-> Raise("ValueError"), ran |-> {"encoder", "scaler"}]
    ELSE IF ScalerRejects(self.scaler, meal_features.columns, sklearn)
    THEN [self |-> self, outcome |-> Raise("ValueError"), ran |-> {"encoder", "scaler"}]
    ELSE IF ~DictHas(self.models, "random_forest")
    THEN [self |-> self, outcome |-> Raise("KeyError"), ran |-> {"encoder", "scaler"}]
    ELSE IF ~DictHas(self.models, "logistic_regression")
    THEN [self |-> self, outcome |-> Raise("KeyError"),
          ran |-> {"encoder", "scaler", "random_forest"}]
    ELSE LET X_scaled == ScalerTransform(self.scaler,
                                         Positional(self.scaler, meal_features.columns,
                                                    Encoded(self, meal_features)))
             rf == ProbaOne(DictGet(self.models, "random_forest").model, X_scaled)
             lr == ProbaOne(DictGet(self.models, "logistic_regression").model, X_scaled)
         IN [self |-> self,
             outcome |-> Return(PredictionResult(meal_features, rf, lr)),
             ran |-> {"encoder", "scaler", "random_forest", "logistic_regression",
                      "recommendation"}]

\* predict_symptoms taking a non-empty models table for a trained engine
predict_symptoms_by_models(self, meal_features, sklearn) ==
    IF self.models = << >>
    THEN [self |-> self, outcome |-> Return(NotTrainedResult), ran |-> {}]
    ELSE PredictTrained(self, meal_features, sklearn)

\* predict_symptoms giving an unseen category the next free code
predict_symptoms_extending(self, meal_features, sklearn) ==
    IF ~self.is_trained
    THEN [self |-> self, outcome |-> Return(NotTrainedResult), ran |-> {}]
    ELSE LET r == PredictTrained(self, meal_features, sklearn)
             c == meal_features.values["food_category"]
         IN IF Unseen(self, meal_features)
            THEN [r EXCEPT !.self.label_encoders =
                     [k \in DOMAIN @ |->
                        IF @[k].name = "food_category"
                        THEN [@[k] EXCEPT !.le.classes = Append(@, c)]
                        ELSE @[k]]]
            ELSE r

\* predict_symptoms(meal_features): what the call returns or raises (outcome),
\* the parts of the engine it ran (ran), and the engine after it (self), under the installed scikit-learn
predict_symptoms(self, meal_features, sklearn) ==
    IF ~self.is_trained
    THEN [self |-> self, outcome |-> Return(NotTrainedResult), ran |-> {}]
    ELSE PredictTrained(self, meal_features, sklearn)

(***************************************************************************)
(* The calls, one action per call of the engine's interface                *)
(***************************************************************************)
\* the sets of classes the training part of y can hold, over every split
TrainClassSets(y) == {{y[i] : i \in DOMAIN y \ t} : t \in TestSets(Len(y))}

\* one held-out row set for each of them: of a split, the engine reads only
\* whether the training part holds both classes
SplitsOf(h) ==
    LET y == FeatureFrames[h].y
    IN IF Len(y) < MinExamples THEN {{}}
       ELSE {CHOOSE t \in TestSets(Len(y)) : {y[i] : i \in DOMAIN y \ t} = cs :
                cs \in TrainClassSets(y)}

Splits == [h \in HistoryIds |-> SplitsOf(h)]

\* the storage left by earlier processes: nothing, the bundle of a run on
\* PriorRun, or that bundle with its classifier files or its scaler and
\* encoder files removed
PriorRun == 3

PriorBundle ==
    LET p == prepare_features(<< >>, PriorRun)
    IN train_models([NewEngine EXCEPT !.label_encoders = p.label_encoders],
                    [a \in ArtifactNames |-> Absent], p,
                    CHOOSE t \in Splits[PriorRun] : TRUE, NoFault).disk

InitialDisks ==
    {[a \in ArtifactNames |-> IF a \in S THEN PriorBundle[a] ELSE Absent] :
        S \in {{}, ArtifactNames, {"scaler", "encoders"},
               {"random_forest", "logistic_regression"}}}

Idle == [pc |-> "idle"]

Init ==
    /\ models = NewEngine.models
    /\ label_encoders = NewEngine.label_encoders
    /\ scaler = NewEngine.scaler
    /\ is_trained = NewEngine.is_trained
    /\ disk \in InitialDisks
    /\ call = [op |-> "init"]
    /\ faults = 0
    /\ trainer = Idle
    /\ predictor = Idle

SetEngine(self) ==
    /\ models' = self.models
    /\ label_encoders' = self.label_encoders
    /\ scaler' = self.scaler
    /\ is_trained' = self.is_trained

\* train: prepare_features on a history, then train_models on what it returned
Train(h, test, io) ==
    LET p == prepare_features(label_encoders, h)
        r == train_models([Self EXCEPT !.label_encoders = p.label_encoders],
                          disk, p, test, io)
    IN /\ SetEngine(r.self)
       /\ disk' = r.disk
       /\ call' = [op |-> "train", arg |-> h, outcome |-> r.outcome]
       /\ faults' = IF io = NoFault THEN faults ELSE faults + 1
       /\ UNCHANGED <<trainer, predictor>>

Predict(meal_features, sklearn) ==
    LET r == predict_symptoms(Self, meal_features, sklearn)
    IN /\ SetEngine(r.self)
       /\ call' = [op |-> "predict", arg |-> meal_features, pre |-> Self,
                   outcome |-> r.outcome, ran |-> r.ran]
       /\ UNCHANGED <<disk, faults, trainer, predictor>>

SaveModels(io) ==
    LET r == save_models(Self, disk, io)
    IN /\ disk' = r.disk
       /\ call' = [op |-> "save", pre |-> Self,
                   outcome |-> IF r.raised THEN Raise("OSError") ELSE Return("None")]
       /\ faults' = IF io = NoFault THEN faults ELSE faults + 1
       /\ UNCHANGED <<engine, trainer, predictor>>

LoadModels ==
    LET r == load_models(Self, disk)
    IN /\ SetEngine(r.self)
       /\ call' = [op |-> "load", outcome |-> Return(r.ret)]
       /\ UNCHANGED <<disk, faults, trainer, predictor>>

\* the storage faults a training run on h can meet: none when it ends before
\* it saves or when MaxFaults were met
TrainFaults(h, test) ==
    LET p == prepare_features(label_encoders, h)
        r == train_models([Self EXCEPT !.label_encoders = p.label_encoders],
                          disk, p, test, NoFault)
    IN IF r.outcome = Return(TRUE) /\ faults < MaxFaults THEN IOs ELSE {NoFault}

\* and those a save_models call can meet: none when it returns at once
SaveFaults == IF is_trained /\ faults < MaxFaults THEN IOs ELSE {NoFault}

\* the builds to tell apart for a dict: every build treats the thirteen
\* fields in their order alike, so one of them stands for all
BuildsFor(meal_features) ==
    IF meal_features.columns = FeatureColumns THEN {"names_checked"} ELSE Builds

Next ==
    \/ \E h \in HistoryIds : \E test \in Splits[h] : \E io \in TrainFaults(h, test) :
          Train(h, test, io)
    \/ \E meal_features \in PredictInputs \cup SchemaInputs :
          \E sklearn \in BuildsFor(meal_features) : Predict(meal_features, sklearn)
    \/ \E io \in SaveFaults : SaveModels(io)
    \/ LoadModels

Spec == Init /\ [][Next]_vars

(***************************************************************************)
(* Threads: one caller running train (prepare_features, then train_models) *)
(* and one running predict_symptoms, interleaved at the engine's reads and *)
(* writes of self.label_encoders, self.scaler, self.models and             *)
(* self.is_trained                                                         *)
(***************************************************************************)
\* the histories the training thread is given: both train without a failure
ThreadHistories == {h \in HistoryIds :
                      /\ NumRows(prepare_features(<< >>, h)) >= MinExamples
                      /\ \A t \in Splits[h] : ~SingleClass(FeatureFrames[h].y, t)}

ThreadInit ==
    /\ Init
    /\ disk = [a \in ArtifactNames |-> Absent]

TrainerAt(pc) == trainer.pc = pc

\* prepare_features: self.label_encoders[col] = le
TPrepare(h, test) ==
    /\ TrainerAt("idle")
    /\ label_encoders' = prepare_features(label_encoders, h).label_encoders
    /\ trainer' = [pc |-> "check", h |-> h, test |-> test]
    /\ UNCHANGED <<models, scaler, is_trained, disk, call, faults, predictor>>

\* train_models: the length check
TCheck ==
    /\ TrainerAt("check")
    /\ trainer' = IF NumRows(prepare_features(<< >>, trainer.h)) < MinExamples
                  THEN Idle
                  ELSE [trainer EXCEPT !.pc = "fit_scaler"]
    /\ UNCHANGED <<engine, disk, call, faults, predictor>>

\* self.scaler.fit_transform(X_train): the scaler object is refitted in place
TFitScaler ==
    /\ TrainerAt("fit_scaler")
    /\ scaler' = ScalerFit(FeatureFrames[trainer.h].X)
    /\ trainer' = [trainer EXCEPT !.pc = "fit_models"]
    /\ UNCHANGED <<models, label_encoders, is_trained, disk, call, faults, predictor>>

\* rf_model.fit and lr_model.fit, on locals
TFitModels ==
    /\ TrainerAt("fit_models")
    /\ trainer' = IF SingleClass(FeatureFrames[trainer.h].y, trainer.test)
                  THEN Idle
                  ELSE [trainer EXCEPT !.pc = "store_rf"]
    /\ UNCHANGED <<engine, disk, call, faults, predictor>>

\* self.models['random_forest'] = {...}
TStoreForest ==
    /\ TrainerAt("store_rf")
    /\ models' = DictSet(models, ModelEntry("random_forest", "RandomForestClassifier",
                                            "Random Forest", FeatureFrames[trainer.h].X))
    /\ trainer' = [trainer EXCEPT !.pc = "store_lr"]
    /\ UNCHANGED <<label_encoders, scaler, is_trained, disk, call, faults, predictor>>

\* self.models['logistic_regression'] = {...}
TStoreLogistic ==
    /\ TrainerAt("store_lr")
    /\ models' = DictSet(models, ModelEntry("logistic_regression", "LogisticRegression",
                                            "Logistic Regression", FeatureFrames[trainer.h].X))
    /\ trainer' = [trainer EXCEPT !.pc = "set_trained"]
    /\ UNCHANGED <<label_encoders, scaler, is_trained, disk, call, faults, predictor>>

\* self.is_trained = True
TSetTrained ==
    /\ TrainerAt("set_trained")
    /\ is_trained' = TRUE
    /\ trainer' = [trainer EXCEPT !.pc = "save"]
    /\ UNCHANGED <<models, label_encoders, scaler, disk, call, faults, predictor>>

\* self.save_models(); return True
TSave ==
    /\ TrainerAt("save")
    /\ disk' = save_models(Self, disk, NoFault).disk
    /\ trainer' = Idle
    /\ UNCHANGED <<engine, call, faults, predictor>>

PredictorAt(pc) == predictor.pc = pc

Training == trainer.pc \notin {"idle"}

\* the prediction ends: its outcome, the parts of the engine it read (used),
\* and whether a train_models call was running at one of its steps
PEnd(outcome, used) ==
    /\ call' = [op |-> "predict", arg |-> predictor.mf, outcome |-> outcome,
                used |-> used, overlapped |-> predictor.overlapped \/ Training]
    /\ predictor' = Idle

PStep(pc, more) ==
    predictor' = [pc |-> pc, mf |-> predictor.mf,
                  overlapped |-> predictor.overlapped \/ Training, got |-> more]

\* if not self.is_trained: return {...}
PCheck(meal_features) ==
    /\ PredictorAt("idle")
    /\ IF ~is_trained
       THEN /\ call' = [op |-> "predict", arg |-> meal_features,
                        outcome |-> Return(NotTrainedResult),
                        used |-> << >>, overlapped |-> Training]
            /\ predictor' = Idle
       ELSE /\ predictor' = [pc |-> "encode", mf |-> meal_features,
                             overlapped |-> Training, got |-> << >>]
            /\ call' = call
    /\ UNCHANGED <<engine, disk, faults, trainer>>

\* the loop over self.label_encoders.items(): le.transform
PEncode ==
    /\ PredictorAt("encode")
    /\ IF Unseen(Self, predictor.mf)
       THEN PEnd(Raise("ValueError"), << >>)
       ELSE /\ PStep("scale", [encoders |-> label_encoders,
                               row |-> Encoded(Self, predictor.mf)])
            /\ call' = call
    /\ UNCHANGED <<engine, disk, faults, trainer>>

\* self.scaler.transform(df)
PScale ==
    /\ PredictorAt("scale")
    /\ IF ~scaler.fitted
       THEN PEnd(Raise("NotFittedError"), << >>)
       ELSE IF ~DictHas(predictor.got.encoders, "food_category")
       THEN PEnd(Raise("ValueError"), << >>)
       ELSE /\ PStep("rf", [predictor.got EXCEPT !.row =
                                ScalerTransform(scaler,
                                                Positional(scaler, predictor.mf.columns, @))])
            /\ call' = call
    /\ UNCHANGED <<engine, disk, faults, trainer>>

\* self.models['random_forest']['model'].predict_proba(X_scaled)[0]
PForest ==
    /\ PredictorAt("rf")
    /\ IF ~DictHas(models, "random_forest")
       THEN PEnd(Raise("KeyError"), << >>)
       ELSE /\ PStep("lr", [encoders |-> predictor.got.encoders,
                            row |-> predictor.got.row,
                            forest |-> DictGet(models, "random_forest").model])
            /\ call' = call
    /\ UNCHANGED <<engine, disk, faults, trainer>>

\* self.models['logistic_regression']['model'].predict_proba(X_scaled)[0],
\* then the ensemble, the recommendation and the returned dict
PLogistic ==
    /\ PredictorAt("lr")
    /\ IF ~DictHas(models, "logistic_regression")
       THEN PEnd(Raise("KeyError"), << >>)
       ELSE LET got == predictor.got
                logistic == DictGet(models, "logistic_regression").model
            IN PEnd(Return(PredictionResult(predictor.mf,
                                            ProbaOne(got.forest, got.row),
                                            ProbaOne(logistic, got.row))),
                    [encoder |-> DictGet(got.encoders, "food_category").le,
                     scaler |-> got.row.by,
                     random_forest |-> got.forest.on,
                     logistic_regression |-> logistic.on])
    /\ UNCHANGED <<engine, disk, faults, trainer>>

ThreadNext ==
    \/ \E h \in ThreadHistories : \E test \in Splits[h] : TPrepare(h, test)
    \/ TCheck
    \/ TFitScaler
    \/ TFitModels
    \/ TStoreForest
    \/ TStoreLogistic
    \/ TSetTrained
    \/ TSave
    \/ \E meal_features \in PredictInputs : PCheck(meal_features)
    \/ PEncode
    \/ PScale
    \/ PForest
    \/ PLogistic

ThreadSpec == ThreadInit /\ [][ThreadNext]_vars

(***************************************************************************)
(* prepare_features followed by train_models, on short lists of meals and  *)
(* symptoms                                                                *)
(***************************************************************************)
\* meals_data holds at most MaxMeals meals, symptoms_data at most MaxSymptoms
MaxMeals == 2
MaxSymptoms == 2

Loaf == Food("gluten",
             <<"W","h","o","l","e"," ","w","h","e","a","t"," ","f","l","o","u","r",",",
               " ","w","a","t","e","r",","," ","y","e","a","s","t">>,
             <<"G","l","u","t","e","n">>)
Hotdog == Food("other", <<"H","O","T","D","O","G">>, NoText)

\* the meals a list is drawn from: ids out of step with positions, with and
\* without quantity (None, 0, positive), notes, ingredients and allergens
MealPool == { Meal(12, Loaf, 2, 19001, 8, <<"o","k">>),
              Meal(11, Milk, None, 19001, 13, NoText),
              Meal(14, Salad, 0, 19002, 19, NoText),
              Meal(13, Hotdog, 1, 19003, 7, NoText) }

\* the symptoms a list is drawn from: two of meal 11, one of meal 12, one of
\* a meal that is in no list
SymptomPool == { Symptom(11, 1), Symptom(11, 5), Symptom(12, 3), Symptom(99, 2) }

SeqsUpTo(S, n) == UNION {[1..k -> S] : k \in 0..n}

MealLists == {m \in SeqsUpTo(MealPool, MaxMeals) :
                \A i, j \in DOMAIN m : m[i] = m[j] => i = j}

SymptomLists == SeqsUpTo(SymptomPool, MaxSymptoms)

PrepInputs == [meals_data : MealLists, symptoms_data : SymptomLists]

PrepFrames == [in \in PrepInputs |-> FeatureFrameOf(0, in.meals_data, in.symptoms_data)]

\* the engine before the calls: new, or trained by loading the bundle of an
\* earlier run
PrepInit ==
    /\ \E d \in {[a \in ArtifactNames |-> Absent], PriorBundle} :
          /\ disk = d
          /\ models = load_models(NewEngine, d).self.models
          /\ label_encoders = load_models(NewEngine, d).self.label_encoders
          /\ scaler = load_models(NewEngine, d).self.scaler
          /\ is_trained = load_models(NewEngine, d).self.is_trained
    /\ call \in [op : {"input"}, meals_data : MealLists, symptoms_data : SymptomLists]
    /\ faults = 0
    /\ trainer = Idle
    /\ predictor = Idle

\* X, y = self.prepare_features(meals_data, symptoms_data)
PrepareFeatures ==
    /\ call.op = "input"
    /\ LET in == [meals_data |-> call.meals_data, symptoms_data |-> call.symptoms_data]
           r == PrepareResult(label_encoders, call.meals_data, PrepFrames[in])
       IN /\ label_encoders' = r.label_encoders
          /\ call' = [op |-> "prepare_features", meals_data |-> call.meals_data,
                      symptoms_data |-> call.symptoms_data, ret |-> r]
    /\ UNCHANGED <<models, scaler, is_trained, disk, faults, trainer, predictor>>

\* self.train_models(X, y): below MinExamples rows it returns before the split
TrainModels ==
    /\ call.op = "prepare_features"
    /\ NumRows(call.ret) < MinExamples
    /\ LET r == train_models(Self, disk, call.ret, {}, NoFault)
       IN /\ SetEngine(r.self)
          /\ disk' = r.disk
          /\ call' = [op |-> "train_models", meals_data |-> call.meals_data,
                      symptoms_data |-> call.symptoms_data, ret |-> call.ret,
                      outcome |-> r.outcome]
    /\ UNCHANGED <<faults, trainer, predictor>>

PrepNext ==
    \/ PrepareFeatures
    \/ TrainModels

PrepSpec == PrepInit /\ [][PrepNext]_vars

(***************************************************************************)
(* Claims                                                                  *)
(***************************************************************************)
NumMeals(h) == Len(Histories[h].meals)

\* the engine after the step
SelfAfter == [models |-> models', label_encoders |-> label_encoders',
              scaler |-> scaler', is_trained |-> is_trained']

\* C1: a train call (prepare_features, then train_models) on a history of
\* fewer than MinExamples meals reports the insufficient-data failure and
\* leaves every part of a trained bundle (encoder, scaler, classifiers,
\* flag) as it was.
C1_ShortHistoryKeepsBundle ==
    [][(call'.op = "train" /\ NumMeals(call'.arg) < MinExamples /\ is_trained)
         => (call'.outcome = Return(FALSE) /\ engine' = engine)]_vars

\* C3: a training run that passed the minimum-count check and then failed
\* returns failure without raising and leaves a trained bundle unchanged, so
\* that every prediction is what it was before the run.
C3_FailedRunKeepsBundle ==
    [][(call'.op = "train" /\ NumMeals(call'.arg) >= MinExamples /\ is_trained
          /\ call'.outcome # Return(TRUE))
         => (/\ call'.outcome = Return(FALSE)
             /\ engine' = engine
             /\ \A mf \in PredictInputs : \A sklearn \in Builds :
                  predict_symptoms(SelfAfter, mf, sklearn).outcome
                    = predict_symptoms(Self, mf, sklearn).outcome)]_vars

AllPresent(d) == \A a \in ArtifactNames : d[a] # Absent

AllReadable(d) == \A a \in ArtifactNames : d[a].state = "ok"

\* C4: load_models makes an engine trained only when all four artifacts are
\* present; when one is missing the engine is untrained after the load and
\* its models table, scaler and encoders hold nothing read from the others.
C4_LoadAllOrNothing ==
    [][(call'.op = "load" /\ ~is_trained)
         => (/\ is_trained' => AllPresent(disk)
             /\ ~AllPresent(disk) =>
                  (~is_trained' /\ UNCHANGED <<models, scaler, label_encoders>>))]_vars

\* C5: predict_symptoms on an untrained engine returns the model-not-trained
\* result as a value, runs neither the encoder, the scaler, a classifier nor
\* the recommendation rules, and leaves the engine as it was.
C5_UntrainedPredict ==
    [][(call'.op = "predict" /\ ~is_trained)
         => (/\ call'.outcome = Return(NotTrainedResult)
             /\ call'.ran = {}
             /\ engine' = engine)]_vars

C5_Witness ==
    /\ call.op = "predict"
    /\ ~is_trained
    /\ models # << >>
    /\ call.outcome = Return(NotTrainedResult)

IsPrediction(outcome) ==
    /\ outcome.kind = "return"
    /\ outcome.value.prediction \in {"Likely to cause symptoms", "Unlikely to cause symptoms"}

\* the parts a prediction read that train_models replaces (the scaler and the
\* two classifiers) are those of one training run
OneBundle(used) ==
    \E h \in HistoryIds :
        /\ used.scaler = h
        /\ used.random_forest = h
        /\ used.logistic_regression = h

\* C2: a predict_symptoms call that interleaves with a running train_models
\* reads the parts of one bundle, the old one or the new one, never the new
\* scaler with the old classifiers or one new classifier with one old one.
C2_PredictSeesOneBundle ==
    (call.op = "predict" /\ call.overlapped /\ IsPrediction(call.outcome))
      => OneBundle(call.used)

\* C6: on a trained engine, predict_symptoms with a food_category the encoder
\* was not fitted on ends in a returned result variant that is no prediction;
\* no exception leaves the engine.
C6_UnseenCategoryIsResult ==
    (call.op = "predict" /\ is_trained /\ Unseen(Self, call.arg))
      => (call.outcome.kind = "return" /\ ~IsPrediction(call.outcome))

\* C7: a load_models that finds a partial or unreadable artifact set does not
\* raise, leaves the engine untrained whatever it was before, and every
\* following predict_symptoms returns the model-not-trained result.
C7_BadArtifactsMeanUntrained ==
    [][(call'.op = "load" /\ ~AllReadable(disk))
         => (/\ call'.outcome.kind = "return"
             /\ ~is_trained'
             /\ \A mf \in PredictInputs : \A sklearn \in Builds :
                  predict_symptoms(SelfAfter, mf, sklearn).outcome
                    = Return(NotTrainedResult))]_vars

\* a save that wrote every artifact has just ended
SaveCompleted ==
    \/ call.op = "save" /\ is_trained /\ call.outcome.kind = "return"
    \/ call.op = "train" /\ call.outcome = Return(TRUE)

\* C8: after a completed save of a trained engine, a fresh engine that loads
\* the artifacts answers predict_symptoms as the saving engine does, for
\* every input whose category the engine's encoder has seen.
C8_SaveLoadRoundTrip ==
    SaveCompleted =>
        \A mf \in PredictInputs : \A sklearn \in Builds :
            ~Unseen(Self, mf) =>
                predict_symptoms(load_models(NewEngine, disk).self, mf, sklearn).outcome
                  = predict_symptoms(Self, mf, sklearn).outcome

\* a retrained engine has saved over the artifacts of an older bundle and
\* answers some input with a prediction
C8_Witness ==
    /\ call.op = "train"
    /\ call.arg # PriorRun
    /\ call.outcome = Return(TRUE)
    /\ \E mf \in PredictInputs : \A sklearn \in Builds :
          IsPrediction(predict_symptoms(Self, mf, sklearn).outcome)

\* C9: a predict_symptoms call, in any state and for any input, leaves the
\* encoder table, the scaler, both classifiers and the trained flag unchanged.
C9_PredictReadsOnly ==
    [][call'.op = "predict" => engine' = engine]_vars

\* a prediction on a trained engine has just failed on an unseen category
C9_Witness ==
    /\ call.op = "predict"
    /\ is_trained
    /\ Unseen(Self, call.arg)
    /\ call.outcome = Raise("ValueError")

InUnit(r) == 0 <= r.num /\ r.num <= r.den /\ r.den > 0

\* C10: every result predict_symptoms returns has its confidence in [0, 1],
\* and so has each of its two per-model confidences when it carries them.
C10_ConfidenceInUnit ==
    (call.op = "predict" /\ call.outcome.kind = "return")
      => /\ InUnit(call.outcome.value.confidence)
         /\ IsPrediction(call.outcome) =>
              /\ InUnit(call.outcome.value.model_details.random_forest.confidence)
              /\ InUnit(call.outcome.value.model_details.logistic_regression.confidence)

\* a trained prediction was returned with both classifiers sure of class 1
C10_Witness ==
    /\ call.op = "predict"
    /\ IsPrediction(call.outcome)
    /\ call.outcome.value.confidence = Ratio(2 * Den, 2 * Den)
    /\ call.outcome.value.prediction = "Likely to cause symptoms"

\* the class-1 probabilities, in units of 1/Den, that the two classifiers of
\* the engine self give the input mf
ProbaPair(self, mf) ==
    LET xs == ScalerTransform(self.scaler,
                              Positional(self.scaler, mf.columns, Encoded(self, mf)))
    IN [rf |-> ProbaOne(DictGet(self.models, "random_forest").model, xs),
        lr |-> ProbaOne(DictGet(self.models, "logistic_regression").model, xs)]

\* C11: with p_rf and p_lr the class-1 probabilities of the two classifiers
\* and avg their mean, the ensemble label is likely exactly when avg > 1/2
\* (avg = 1/2 gives unlikely) and the confidence is max(avg, 1 - avg).
C11_EnsembleThreshold ==
    (call.op = "predict" /\ IsPrediction(call.outcome))
      => LET p == ProbaPair(call.pre, call.arg)
             sum == p.rf + p.lr      \* avg = sum / (2 * Den)
             res == call.outcome.value
         IN /\ (res.prediction = "Likely to cause symptoms") <=> (sum > Den)
            /\ res.confidence.num * (2 * Den)
                 = Max(sum, 2 * Den - sum) * res.confidence.den

\* a prediction whose two class-1 probabilities differ and average to 1/2
C11_Witness ==
    /\ call.op = "predict"
    /\ IsPrediction(call.outcome)
    /\ LET p == ProbaPair(call.pre, call.arg)
       IN p.rf + p.lr = Den /\ p.rf # p.lr
    /\ call.outcome.value.prediction = "Unlikely to cause symptoms"

\* the recommendation text of a predicted label and a category string
RecommendationOf(label, category) ==
    IF label = "Unlikely to cause symptoms"
    THEN "This food appears safe for you based on current data."
    ELSE CASE category = "dairy" ->
                "Consider dairy alternatives like almond milk or coconut yogurt."
           [] category = "gluten" -> "Try gluten-free alternatives like quinoa or rice."
           [] category = "spicy" -> "Consider milder versions or reduce spice levels."
           [] OTHER ->
                "Monitor your symptoms and consider avoiding this food category temporarily."

\* C12: the recommendation of a prediction is determined by its label and
\* the category string of the meal alone: the substitution text of dairy,
\* gluten or spicy, the monitor-and-avoid text of any other category, the
\* reassurance text when unlikely, whatever the confidence.
C12_RecommendationByLabelAndCategory ==
    (call.op = "predict" /\ IsPrediction(call.outcome))
      => call.outcome.value.recommendation
           = RecommendationOf(call.outcome.value.prediction,
                              call.arg.values["food_category"])

\* a likely prediction below three quarters confidence for a category with
\* its own substitution text
C12_Witness ==
    /\ call.op = "predict"
    /\ IsPrediction(call.outcome)
    /\ call.outcome.value.prediction = "Likely to cause symptoms"
    /\ call.arg.values["food_category"] \in {"dairy", "gluten", "spicy"}
    /\ 4 * call.outcome.value.confidence.num < 3 * call.outcome.value.confidence.den

\* C13: in the (X, y) prepare_features returns, y[i] is 1 exactly when some
\* symptom of symptoms_data has the meal_id of meals_data[i], whatever the
\* severities, the number of symptoms and the symptoms of other meals, and
\* row i of X and y[i] both belong to meals_data[i].
C13_TargetIffSymptom ==
    (call.op = "prepare_features" /\ ~call.ret.none)
      => LET meals_data == call.meals_data
             symptoms_data == call.symptoms_data
             X == call.ret.X
             y == call.ret.y
         IN /\ DOMAIN y = DOMAIN meals_data
            /\ DOMAIN X.rows = DOMAIN meals_data
            /\ \A i \in DOMAIN meals_data :
                 /\ y[i] \in {0, 1}
                 /\ (y[i] = 1) <=> (\E k \in DOMAIN symptoms_data :
                                       symptoms_data[k].meal_id = meals_data[i].id)
                 /\ X.rows[i]["meal_hour"] = meals_data[i].meal_time.hour
                 /\ X.rows[i]["days_since_epoch"] = meals_data[i].meal_time.days

\* two meals whose ids run against their positions, the second with two
\* symptoms of severities 1 and 5, the first with none
C13_Witness ==
    /\ call.op = "prepare_features"
    /\ Len(call.meals_data) = 2
    /\ call.meals_data[1].id > call.meals_data[2].id
    /\ call.symptoms_data = <<Symptom(11, 1), Symptom(11, 5)>>
    /\ call.ret.y = <<0, 1>>

CategoriesOf(h) == [i \in DOMAIN Histories[h].meals |-> Histories[h].meals[i].food.category]

\* C14: fitting the food_category encoder on a meal list gives the distinct
\* categories the codes 0, 1, 2, ... in the order they are first met, and
\* once fitted no call other than a training run that succeeds changes the
\* code of any value.
C14_FirstSeenCodesFrozen ==
    [][/\ (call'.op = "train" /\ NumMeals(call'.arg) > 0)
           => DictGet(label_encoders', "food_category").le.classes
                = FirstSeen(CategoriesOf(call'.arg))
       /\ (DictHas(label_encoders, "food_category")
             /\ ~(call'.op = "train" /\ call'.outcome = Return(TRUE)))
           => label_encoders' = label_encoders]_vars

\* C15: training and inference use one feature schema: the frame a scaler
\* was fitted on has exactly the thirteen feature fields in their order, and
\* predict_symptoms runs the classifiers only on a dict with those fields in
\* that order.
C15_OneFeatureSchema ==
    /\ scaler.fitted => scaler.feature_names = FeatureColumns
    /\ (call.op = "predict" /\ "random_forest" \in call.ran)
         => call.arg.columns = FeatureColumns

\* C16: when train_models returns True the engine is trained, holds both
\* classifiers of the run with their held-out accuracy, and the four
\* artifacts in storage are the classifiers, scaler and encoders of that
\* same run.
C16_SuccessMeansSaved ==
    (call.op = "train" /\ call.outcome = Return(TRUE))
      => LET h == call.arg
             rf == DictGet(models, "random_forest")
             lr == DictGet(models, "logistic_regression")
         IN /\ is_trained
            /\ DictHas(models, "random_forest") /\ DictHas(models, "logistic_regression")
            /\ rf.model.on = h /\ rf.accuracy.on = h
            /\ lr.model.on = h /\ lr.accuracy.on = h
            /\ scaler.fitted /\ scaler.on = h
            /\ disk["random_forest"] = [state |-> "ok", obj |-> rf.model]
            /\ disk["logistic_regression"] = [state |-> "ok", obj |-> lr.model]
            /\ disk["scaler"] = [state |-> "ok", obj |-> scaler]
            /\ disk["encoders"] = [state |-> "ok", obj |-> label_encoders]

\* a new engine has trained on a history other than the one of the stored
\* bundle, after a save that failed, and every file is of the new run
C16_Witness ==
    /\ call.op = "train"
    /\ call.outcome = Return(TRUE)
    /\ call.arg # PriorRun
    /\ faults > 0
    /\ \A a \in {"random_forest", "logistic_regression", "scaler"} :
          disk[a].state = "ok" /\ disk[a].obj.on = call.arg

\* the history the parts of the engine were fitted on agree: both
\* classifiers, the scaler and the encoder table are those of one run
PartsOfOneRun ==
    \E h \in HistoryIds :
        /\ \A k \in DOMAIN models : models[k].model.on = h
        /\ scaler.fitted /\ scaler.on = h
        /\ DictHas(label_encoders, "food_category")
        /\ DictGet(label_encoders, "food_category").le = FeatureFrames[h].le

\* C17: the stored bundle is all-or-nothing: a load_models that reads all
\* four artifacts and makes the engine trained, also after a save_models
\* that was interrupted between two of its writes, gives the engine
\* classifiers, scaler and encoders of one save.
C17_LoadedBundleIsOneSave ==
    (call.op = "load" /\ call.outcome = Return(TRUE) /\ AllReadable(disk))
      => PartsOfOneRun

\* C18: for an empty meal list prepare_features returns (None, None)
\* whatever the symptom list holds and leaves the engine, its stored encoder
\* included, as it was; train_models on that result returns False and
\* changes neither the engine nor the stored artifacts.
C18_EmptyHistory ==
    [][/\ (call'.op = "prepare_features" /\ call'.meals_data = << >>)
           => (call'.ret.none /\ engine' = engine /\ disk' = disk)
       /\ (call'.op = "train_models" /\ call'.meals_data = << >>)
           => (call'.outcome = Return(FALSE) /\ engine' = engine /\ disk' = disk)]_vars

\* a trained engine was given no meals and two symptoms, and train_models
\* has returned False
C18_Witness ==
    /\ call.op = "train_models"
    /\ call.meals_data = << >>
    /\ Len(call.symptoms_data) = 2
    /\ call.outcome = Return(FALSE)
    /\ is_trained
    /\ DictHas(label_encoders, "food_category")

\* some keyword of words occurs in text at some offset, letters compared
\* without regard to case
OccursIgnoringCase(words, text) ==
    \E w \in words : \E s \in 0..(Len(text) - Len(w)) :
        \A j \in 1..Len(w) : LowerChar(text[s + j]) = w[j]

\* C19: in every row prepare_features builds, has_dairy, has_gluten and
\* has_spicy are 1 exactly when the ingredients text of the meal is not empty
\* and holds, ignoring case, a keyword of the matching set as a substring;
\* the text "Whole wheat flour, water, yeast" gives has_gluten 1, has_dairy 0.
C19_KeywordFlags ==
    (call.op = "prepare_features" /\ ~call.ret.none)
      => \A i \in DOMAIN call.meals_data :
            LET text == call.meals_data[i].food.ingredients
                row == call.ret.X.rows[i]
                Flag(words) == IF text # << >> /\ OccursIgnoringCase(words, text)
                               THEN 1 ELSE 0
            IN /\ row["has_dairy"] = Flag(DairyWords)
               /\ row["has_gluten"] = Flag(GlutenWords)
               /\ row["has_spicy"] = Flag(SpicyWords)
               /\ text = Loaf.ingredients
                    => (row["has_gluten"] = 1 /\ row["has_dairy"] = 0 /\ row["has_spicy"] = 0)

\* the rows of the whole-wheat loaf and of a food whose only keyword is part
\* of a longer word in capitals
C19_Witness ==
    /\ call.op = "prepare_features"
    /\ Len(call.meals_data) = 2
    /\ call.meals_data[1].food = Loaf
    /\ call.meals_data[2].food = Hotdog
    /\ call.ret.X.rows[1]["has_gluten"] = 1
    /\ call.ret.X.rows[1]["has_dairy"] = 0
    /\ call.ret.X.rows[2]["has_spicy"] = 1

\* C20: whenever is_trained is true both random_forest and
\* logistic_regression are in the models table, and no predict_symptoms
\* call on an engine that reports trained fails for a missing classifier.
C20_TrainedHasBothClassifiers ==
    /\ is_trained => (DictHas(models, "random_forest")
                       /\ DictHas(models, "logistic_regression"))
    /\ (call.op = "predict" /\ call.outcome.kind = "raise")
         => call.outcome.exc # "KeyError"

\* the encoder, the scaler and the classifiers of the engine after the step
\* were fitted on one history
EncoderOfBundleAfter ==
    \E h \in HistoryIds :
        /\ scaler'.fitted /\ scaler'.on = h
        /\ \A k \in DOMAIN models' : models'[k].model.on = h
        /\ DictHas(label_encoders', "food_category")
        /\ DictGet(label_encoders', "food_category").le = FeatureFrames[h].le

\* C21: whenever is_trained is true the food_category encoder is the one
\* fitted on the history the scaler and the classifiers were fitted on, and a
\* prepare_features call that no successful train_models follows leaves the
\* code of every category as it was.
C21_EncoderMatchesBundle ==
    [][/\ is_trained' => EncoderOfBundleAfter
       /\ (is_trained /\ call'.op = "train" /\ call'.outcome # Return(TRUE))
           => \A mf \in PredictInputs :
                 /\ Unseen(SelfAfter, mf) = Unseen(Self, mf)
                 /\ ~Unseen(Self, mf) => Encoded(SelfAfter, mf) = Encoded(Self, mf)]_vars

LeqRatio(a, b) == a.num * b.den <= b.num * a.den

\* C22: in every trained prediction, two per-model labels that agree give
\* the ensemble label of the same side, and the ensemble confidence is at
\* least 1/2 and at most the larger of the two per-model confidences.
C22_EnsembleWithinModels ==
    (call.op = "predict" /\ IsPrediction(call.outcome))
      => LET res == call.outcome.value
             rf == res.model_details.random_forest
             lr == res.model_details.logistic_regression
         IN /\ (rf.prediction = "Likely" /\ lr.prediction = "Likely")
                 => res.prediction = "Likely to cause symptoms"
            /\ (rf.prediction = "Unlikely" /\ lr.prediction = "Unlikely")
                 => res.prediction = "Unlikely to cause symptoms"
            /\ LeqRatio(Ratio(1, 2), res.confidence)
            /\ (LeqRatio(res.confidence, rf.confidence)
                 \/ LeqRatio(res.confidence, lr.confidence))

\* both classifiers say likely with different confidences, and the ensemble
\* confidence lies strictly between them
C22_Witness ==
    /\ call.op = "predict"
    /\ IsPrediction(call.outcome)
    /\ LET res == call.outcome.value
           rf == res.model_details.random_forest
           lr == res.model_details.logistic_regression
       IN /\ rf.prediction = "Likely" /\ lr.prediction = "Likely"
          /\ res.prediction = "Likely to cause symptoms"
          /\ rf.confidence # lr.confidence
          /\ ~LeqRatio(res.confidence, rf.confidence)
               \/ ~LeqRatio(res.confidence, lr.confidence)

====
